---- MODULE Spec2Model ----
(***************************************************************************)
(* Model of brevitas/core/bit_width/parameter.py: the two learnable        *)
(* bit-width modules BitWidthParameter and RemoveBitwidthParameter, their  *)
(* construction, forward(), optimizer updates and the state-dict load hook. *)
(*                                                                         *)
(* Numbers are exact rationals [n, d] (d > 0); d = 0 stands for the        *)
(* infinity a tensor division by zero produces.  Rounding of the tensor    *)
(* engine's finite-precision floats is not part of the model.              *)
(***************************************************************************)
EXTENDS Integers, Sequences, FiniteSets, TLC

VARIABLES
    cls,                  \* class being instantiated
    args,                 \* constructor arguments
    status,               \* "new", "constructed", or the exception raised
    self,                 \* the module's attributes, NoModule before/without one
    IGNORE_MISSING_KEYS,  \* brevitas.config.IGNORE_MISSING_KEYS
    out,                  \* value returned by the last forward()
    last                  \* the last operation with its arguments and results

vars == <<cls, args, status, self, IGNORE_MISSING_KEYS, out, last>>

----------------------------------------------------------------------------
(* Bounds of the model *)

MaxBitWidth == 4        \* bit_width, min_bit_width range over -1..MaxBitWidth
MaxOffsetQ == 2         \* parameter values written by updates: k/4, |k| <= MaxOffsetQ
MaxStep == 2            \* restriction policies restrict to multiples of 1..MaxStep
MaxRemove == 4          \* bit_width_to_remove ranges over -1..MaxRemove
MaxForwardCalls == 2    \* consecutive forward() calls that are told apart

----------------------------------------------------------------------------
(* Exact rational arithmetic *)

RECURSIVE Gcd(_, _)
Gcd(a, b) == IF b = 0 THEN a ELSE Gcd(b, a % b)

AbsInt(a) == IF a < 0 THEN -a ELSE a

Rat(n, d) ==
    IF d = 0 THEN [n |-> 1, d |-> 0]
    ELSE LET s == IF d < 0 THEN -1 ELSE 1
             g == Gcd(AbsInt(n), AbsInt(d))
         IN  [n |-> (s * n) \div g, d |-> (s * d) \div g]

Int2Rat(i) == [n |-> i, d |-> 1]
Inf == [n |-> 1, d |-> 0]
IsFinite(x) == x.d # 0

RAdd(x, y) == Rat(x.n * y.d + y.n * x.d, x.d * y.d)
RSub(x, y) == Rat(x.n * y.d - y.n * x.d, x.d * y.d)
RAbs(x) == [n |-> AbsInt(x.n), d |-> x.d]
RDivInt(x, k) == Rat(x.n, x.d * k)

\* x < y for finite rationals, without forming the cross products
RECURSIVE RLessFinite(_, _)
RLessFinite(x, y) ==
    LET qx == x.n \div x.d
        qy == y.n \div y.d
        rx == x.n % x.d
        ry == y.n % y.d
    IN  IF qx # qy THEN qx < qy
        ELSE IF ry = 0 THEN FALSE
        ELSE IF rx = 0 THEN TRUE
        ELSE RLessFinite([n |-> y.d, d |-> ry], [n |-> x.d, d |-> rx])

\* x < y, infinity above every finite value
RLess(x, y) ==
    IF x.d = 0 THEN FALSE
    ELSE IF y.d = 0 THEN TRUE
    ELSE RLessFinite(x, y)

RLeq(x, y) == x = y \/ RLess(x, y)

RFloor(x) == x.n \div x.d
\* torch.round: to nearest, ties to even
RRound(x) ==
    LET f == x.n \div x.d
        r2 == 2 * (x.n % x.d)
    IN  IF r2 < x.d THEN f
        ELSE IF r2 > x.d THEN f + 1
        ELSE IF f % 2 = 0 THEN f ELSE f + 1

----------------------------------------------------------------------------
(* Module-level constants, parameter.py lines 18-20 *)

MIN_INT_BIT_WIDTH == 2
NON_ZERO_EPSILON == Rat(1, 1000000)
REMOVE_ZERO_BIT_WIDTH == Rat(1, 10)

----------------------------------------------------------------------------
(* The restriction policy restrict_bit_width_impl: restrict_init_float and *)
(* the callable.  A policy restricts the value to the multiples of `step`  *)
(* with the float-to-int implementation `float_to_int_impl`; every policy  *)
(* is monotonic non-decreasing.  IntRestrictValue(RoundSte()) is the       *)
(* default argument of BitWidthParameter.__init__.                         *)

IntRestrictValueRoundSte == [float_to_int_impl |-> "RoundSte", step |-> 1]

Policies ==
    [float_to_int_impl : {"RoundSte", "FloorSte"}, step : 1..MaxStep]

restrict_init_float(impl, x) == x

float_to_int(name, x) ==
    IF name = "RoundSte" THEN RRound(x) ELSE RFloor(x)

restrict(impl, x) ==
    Int2Rat(impl.step * float_to_int(impl.float_to_int_impl, RDivInt(x, impl.step)))

\* brevitas.function.abs_binary_sign_grad, forward pass: absolute value
abs_binary_sign_grad(x) == RAbs(x)

----------------------------------------------------------------------------
NoModule == [cls |-> "none"]
NoValue == [n |-> 0, d |-> -1]
NoCall == [op |-> "none"]

\* parameter values an optimizer step or a checkpoint can hold
ParamValues == {Rat(k, 4) : k \in -MaxOffsetQ..MaxOffsetQ}

----------------------------------------------------------------------------
(* BitWidthParameter, parameter.py lines 23-97 *)

\* variant of the checks without the comparison against min_bit_width
BitWidthParameter_validate_no_min_compare(bit_width, min_bit_width) ==
    IF bit_width < MIN_INT_BIT_WIDTH THEN "RuntimeError"
    ELSE IF min_bit_width < MIN_INT_BIT_WIDTH THEN "RuntimeError"
    ELSE "constructed"

\* __init__, lines 61-71: the three argument checks
BitWidthParameter_validate(bit_width, min_bit_width) ==
    IF bit_width < MIN_INT_BIT_WIDTH THEN "RuntimeError"
    ELSE IF min_bit_width < MIN_INT_BIT_WIDTH THEN "RuntimeError"
    ELSE IF bit_width < min_bit_width THEN "RuntimeError"
    ELSE "constructed"

\* variant of the initialisation that stores the restricted bit width
\* itself as the offset
BitWidthParameter_init_no_base(bit_width, min_bit_width, restrict_bit_width_impl, override_pretrained_bit_width) ==
    [cls |-> "BitWidthParameter",
     bit_width_offset |-> restrict_init_float(restrict_bit_width_impl, Int2Rat(bit_width)),
     bit_width_base |-> restrict_init_float(restrict_bit_width_impl, Int2Rat(min_bit_width)),
     restrict_bit_width_impl |-> restrict_bit_width_impl,
     override_pretrained |-> override_pretrained_bit_width]

\* __init__, lines 73-81: the attributes of the new module
BitWidthParameter_init(bit_width, min_bit_width, restrict_bit_width_impl, override_pretrained_bit_width) ==
    LET bw_float == Int2Rat(bit_width)
        min_float == Int2Rat(min_bit_width)
        bit_width_base == restrict_init_float(restrict_bit_width_impl, min_float)
        bw_restricted == restrict_init_float(restrict_bit_width_impl, bw_float)
        bit_width_offset_init == RSub(bw_restricted, bit_width_base)
    IN  [cls |-> "BitWidthParameter",
         bit_width_offset |-> bit_width_offset_init,
         bit_width_base |-> bit_width_base,
         restrict_bit_width_impl |-> restrict_bit_width_impl,
         override_pretrained |-> override_pretrained_bit_width]

\* variant of forward that adds the offset without taking its absolute value
BitWidthParameter_forward_no_abs(m) ==
    [ret |-> restrict(m.restrict_bit_width_impl, RAdd(m.bit_width_offset, m.bit_width_base)),
     self |-> m]

\* variant of forward that takes the absolute value of the offset in place
BitWidthParameter_forward_inplace_abs(m) ==
    LET bit_width == RAdd(abs_binary_sign_grad(m.bit_width_offset), m.bit_width_base)
    IN  [ret |-> restrict(m.restrict_bit_width_impl, bit_width),
         self |-> [m EXCEPT !.bit_width_offset = RAbs(@)]]

\* forward, lines 83-87: the returned tensor and the module after the call
BitWidthParameter_forward(m) ==
    LET bit_width == RAdd(abs_binary_sign_grad(m.bit_width_offset), m.bit_width_base)
    IN  [ret |-> restrict(m.restrict_bit_width_impl, bit_width), self |-> m]

----------------------------------------------------------------------------
(* RemoveBitwidthParameter, parameter.py lines 100-134 *)

\* variant of the check that also rejects bit_width_to_remove == 0
RemoveBitwidthParameter_validate_rejects_zero(bit_width_to_remove, remove_zero_bit_width) ==
    IF bit_width_to_remove <= 0 THEN "RuntimeError" ELSE "constructed"

\* __init__, lines 111-116: the check and the divisions; 1 / x on Python
\* numbers raises ZeroDivisionError when x is zero
RemoveBitwidthParameter_validate(bit_width_to_remove, remove_zero_bit_width) ==
    IF bit_width_to_remove < 0 THEN "RuntimeError"
    ELSE IF bit_width_to_remove = 0
         THEN IF remove_zero_bit_width.n = 0 THEN "ZeroDivisionError"
              ELSE "constructed"
    ELSE "constructed"

\* __init__, lines 113-119: the attributes of the new module
RemoveBitwidthParameter_init(bit_width_to_remove, override_pretrained_bit_width, non_zero_epsilon, remove_zero_bit_width) ==
    LET bit_width_coeff_init ==
            IF bit_width_to_remove = 0
            THEN Rat(remove_zero_bit_width.d, remove_zero_bit_width.n)
            ELSE Rat(1, bit_width_to_remove)
    IN  [cls |-> "RemoveBitwidthParameter",
         bit_width_coeff |-> bit_width_coeff_init,
         non_zero_epsilon |-> non_zero_epsilon,
         override_pretrained |-> override_pretrained_bit_width]

\* variant of forward that adds the coefficient without its absolute value
RemoveBitwidthParameter_forward_no_abs(m) ==
    LET den == RAdd(m.non_zero_epsilon, m.bit_width_coeff)
    IN  [ret |-> Rat(den.d, den.n), self |-> m]

\* forward, lines 121-124: the returned tensor and the module after the
\* call; a tensor division by zero yields infinity
RemoveBitwidthParameter_forward(m) ==
    LET den == RAdd(m.non_zero_epsilon, RAbs(m.bit_width_coeff))
    IN  [ret |-> Rat(den.d, den.n), self |-> m]

----------------------------------------------------------------------------
forward(m) ==
    IF m.cls = "BitWidthParameter" THEN BitWidthParameter_forward(m)
    ELSE RemoveBitwidthParameter_forward(m)

param_name(c) ==
    IF c = "BitWidthParameter" THEN "bit_width_offset" ELSE "bit_width_coeff"

param(m) ==
    IF m.cls = "BitWidthParameter" THEN m.bit_width_offset ELSE m.bit_width_coeff

set_param(m, v) ==
    IF m.cls = "BitWidthParameter" THEN [m EXCEPT !.bit_width_offset = v]
    ELSE [m EXCEPT !.bit_width_coeff = v]

----------------------------------------------------------------------------
(* State-dict loading.  A state dict is a function from keys (strings) to  *)
(* values; missing_keys is a list; unexpected_keys is kept as the set of   *)
(* keys appended to it.                                                    *)

RECURSIVE remove_first(_, _)
\* list.remove(x): removes the first occurrence
remove_first(seq, x) ==
    IF seq = <<>> THEN <<>>
    ELSE IF Head(seq) = x THEN Tail(seq)
    ELSE <<Head(seq)>> \o remove_first(Tail(seq), x)

contains(seq, x) == \E i \in 1..Len(seq) : seq[i] = x

del_key(state_dict, key) ==
    [k \in (DOMAIN state_dict) \ {key} |-> state_dict[k]]

startswith(key, prefix) ==
    Len(key) >= Len(prefix) /\ SubSeq(key, 1, Len(prefix)) = prefix

RECURSIVE first_component(_)
\* s.split('.', 1)[0]
first_component(s) ==
    IF Len(s) = 0 THEN ""
    ELSE IF SubSeq(s, 1, 1) = "." THEN ""
    ELSE SubSeq(s, 1, 1) \o first_component(SubSeq(s, 2, Len(s)))

\* names of the submodules registered on a module (self._modules)
submodules(m) ==
    IF m.cls = "BitWidthParameter" THEN {"restrict_bit_width_impl"} ELSE {}

\* torch.nn.Module._load_from_state_dict for a module whose only parameter
\* is the scalar param_name(m.cls)
Module_load_from_state_dict(m, state_dict, prefix, strict, missing_keys, unexpected_keys) ==
    LET key == prefix \o param_name(m.cls)
        present == key \in DOMAIN state_dict
        unexpected == {k \in DOMAIN state_dict :
                          /\ startswith(k, prefix)
                          /\ LET input_name == first_component(SubSeq(k, Len(prefix) + 1, Len(k)))
                             IN  /\ input_name \notin submodules(m)
                                 /\ input_name # param_name(m.cls)}
    IN  [self |-> IF present THEN set_param(m, state_dict[key]) ELSE m,
         state_dict |-> state_dict,
         missing_keys |-> IF ~present /\ strict THEN Append(missing_keys, key)
                          ELSE missing_keys,
         unexpected_keys |-> IF strict THEN unexpected_keys \cup unexpected
                             ELSE unexpected_keys]

\* variant of the hook that never deletes the key from the state dict
BitWidthParameter_load_no_delete(m, state_dict, prefix, strict, missing_keys, unexpected_keys, ignore_missing_keys) ==
    LET bit_width_offset_key == prefix \o "bit_width_offset"
        r == Module_load_from_state_dict(m, state_dict, prefix, strict, missing_keys, unexpected_keys)
    IN  [self |-> r.self,
         state_dict |-> r.state_dict,
         missing_keys |-> IF ignore_missing_keys /\ contains(r.missing_keys, bit_width_offset_key)
                          THEN remove_first(r.missing_keys, bit_width_offset_key)
                          ELSE r.missing_keys,
         unexpected_keys |-> r.unexpected_keys]

\* variant of the hook that deletes the key whatever override_pretrained is
BitWidthParameter_load_always_delete(m, state_dict, prefix, strict, missing_keys, unexpected_keys, ignore_missing_keys) ==
    LET bit_width_offset_key == prefix \o "bit_width_offset"
        r == Module_load_from_state_dict(m, del_key(state_dict, bit_width_offset_key),
                                         prefix, strict, missing_keys, unexpected_keys)
    IN  [self |-> r.self,
         state_dict |-> r.state_dict,
         missing_keys |-> IF ignore_missing_keys /\ contains(r.missing_keys, bit_width_offset_key)
                          THEN remove_first(r.missing_keys, bit_width_offset_key)
                          ELSE r.missing_keys,
         unexpected_keys |-> r.unexpected_keys]

\* BitWidthParameter._load_from_state_dict, lines 89-97
BitWidthParameter_load_from_state_dict(m, state_dict, prefix, strict, missing_keys, unexpected_keys, ignore_missing_keys) ==
    LET bit_width_offset_key == prefix \o "bit_width_offset"
        sd == IF m.override_pretrained /\ bit_width_offset_key \in DOMAIN state_dict
              THEN del_key(state_dict, bit_width_offset_key)
              ELSE state_dict
        r == Module_load_from_state_dict(m, sd, prefix, strict, missing_keys, unexpected_keys)
    IN  [self |-> r.self,
         state_dict |-> r.state_dict,
         missing_keys |-> IF ignore_missing_keys /\ contains(r.missing_keys, bit_width_offset_key)
                          THEN remove_first(r.missing_keys, bit_width_offset_key)
                          ELSE r.missing_keys,
         unexpected_keys |-> r.unexpected_keys]

\* variant of the hook that never removes the key from missing_keys
RemoveBitwidthParameter_load_no_suppress(m, state_dict, prefix, strict, missing_keys, unexpected_keys, ignore_missing_keys) ==
    LET bit_width_coeff_key == prefix \o "bit_width_coeff"
        sd == IF m.override_pretrained /\ bit_width_coeff_key \in DOMAIN state_dict
              THEN del_key(state_dict, bit_width_coeff_key)
              ELSE state_dict
    IN  Module_load_from_state_dict(m, sd, prefix, strict, missing_keys, unexpected_keys)

\* variant of the hook that deletes the key after delegating to the
\* generic loader instead of before
RemoveBitwidthParameter_load_delete_late(m, state_dict, prefix, strict, missing_keys, unexpected_keys, ignore_missing_keys) ==
    LET bit_width_coeff_key == prefix \o "bit_width_coeff"
        r == Module_load_from_state_dict(m, state_dict, prefix, strict, missing_keys, unexpected_keys)
    IN  [self |-> r.self,
         state_dict |-> IF m.override_pretrained /\ bit_width_coeff_key \in DOMAIN state_dict
                        THEN del_key(state_dict, bit_width_coeff_key)
                        ELSE state_dict,
         missing_keys |-> IF ignore_missing_keys /\ contains(r.missing_keys, bit_width_coeff_key)
                          THEN remove_first(r.missing_keys, bit_width_coeff_key)
                          ELSE r.missing_keys,
         unexpected_keys |-> r.unexpected_keys]

\* RemoveBitwidthParameter._load_from_state_dict, lines 126-134
RemoveBitwidthParameter_load_from_state_dict(m, state_dict, prefix, strict, missing_keys, unexpected_keys, ignore_missing_keys) ==
    LET bit_width_coeff_key == prefix \o "bit_width_coeff"
        sd == IF m.override_pretrained /\ bit_width_coeff_key \in DOMAIN state_dict
              THEN del_key(state_dict, bit_width_coeff_key)
              ELSE state_dict
        r == Module_load_from_state_dict(m, sd, prefix, strict, missing_keys, unexpected_keys)
    IN  [self |-> r.self,
         state_dict |-> r.state_dict,
         missing_keys |-> IF ignore_missing_keys /\ contains(r.missing_keys, bit_width_coeff_key)
                          THEN remove_first(r.missing_keys, bit_width_coeff_key)
                          ELSE r.missing_keys,
         unexpected_keys |-> r.unexpected_keys]

load_from_state_dict(m, state_dict, prefix, strict, missing_keys, unexpected_keys, ignore_missing_keys) ==
    IF m.cls = "BitWidthParameter"
    THEN BitWidthParameter_load_from_state_dict(m, state_dict, prefix, strict, missing_keys, unexpected_keys, ignore_missing_keys)
    ELSE RemoveBitwidthParameter_load_from_state_dict(m, state_dict, prefix, strict, missing_keys, unexpected_keys, ignore_missing_keys)

----------------------------------------------------------------------------
(* Inputs *)

Prefixes == {"", "quant."}

CheckpointValues == {Rat(-3, 4), Int2Rat(3)}

\* entries of a checkpoint that belong to other parameters and modules
OtherEntries(prefix) ==
    [k \in {prefix \o "scale", prefix \o "restrict_bit_width_impl.extra", "conv.weight"} |-> Int2Rat(1)]

\* checkpoints seen by a module of class c loaded under `prefix`: the
\* entries o of the rest of the model, with or without the module's own key
StateDicts(c, prefix, o) ==
    LET own == prefix \o param_name(c)
    IN  {o} \cup
        {[k \in (DOMAIN o) \cup {own} |-> IF k = own THEN v ELSE o[k]] :
            v \in CheckpointValues}

\* the rest of the model: none, or other modules with their checkpoint
\* entries and the missing_keys accumulated while loading them
Contexts(prefix) ==
    {[others |-> <<>>, missing_keys |-> <<>>],
     [others |-> OtherEntries(prefix), missing_keys |-> <<"conv.bias">>]}

Epsilons == {NON_ZERO_EPSILON, Int2Rat(0), Rat(-1, 4)}
RemoveZeroBitWidths == {REMOVE_ZERO_BIT_WIDTH, Int2Rat(0), Rat(-1, 10)}

BitWidthParameterArgs ==
    [bit_width : -1..MaxBitWidth,
     min_bit_width : -1..MaxBitWidth,
     restrict_bit_width_impl : Policies,
     override_pretrained_bit_width : BOOLEAN]

RemoveBitwidthParameterArgs ==
    [bit_width_to_remove : -1..MaxRemove,
     override_pretrained_bit_width : BOOLEAN,
     non_zero_epsilon : Epsilons,
     remove_zero_bit_width : RemoveZeroBitWidths]

----------------------------------------------------------------------------
(* The state machine *)

Init ==
    /\ cls \in {"BitWidthParameter", "RemoveBitwidthParameter"}
    /\ args \in IF cls = "BitWidthParameter" THEN BitWidthParameterArgs
                ELSE RemoveBitwidthParameterArgs
    /\ status = "new"
    /\ self = NoModule
    /\ IGNORE_MISSING_KEYS \in BOOLEAN
    /\ out = NoValue
    /\ last = NoCall

\* BitWidthParameter(bit_width, min_bit_width, restrict_bit_width_impl, override)
ConstructBitWidthParameter ==
    /\ status = "new"
    /\ cls = "BitWidthParameter"
    /\ status' = BitWidthParameter_validate(args.bit_width, args.min_bit_width)
    /\ self' = IF status' = "constructed"
               THEN BitWidthParameter_init(args.bit_width, args.min_bit_width,
                        args.restrict_bit_width_impl, args.override_pretrained_bit_width)
               ELSE NoModule
    /\ last' = [op |-> "init"]
    /\ UNCHANGED <<cls, args, IGNORE_MISSING_KEYS, out>>

\* RemoveBitwidthParameter(bit_width_to_remove, override, non_zero_epsilon, remove_zero_bit_width)
ConstructRemoveBitwidthParameter ==
    /\ status = "new"
    /\ cls = "RemoveBitwidthParameter"
    /\ status' = RemoveBitwidthParameter_validate(args.bit_width_to_remove, args.remove_zero_bit_width)
    /\ self' = IF status' = "constructed"
               THEN RemoveBitwidthParameter_init(args.bit_width_to_remove,
                        args.override_pretrained_bit_width, args.non_zero_epsilon,
                        args.remove_zero_bit_width)
               ELSE NoModule
    /\ last' = [op |-> "init"]
    /\ UNCHANGED <<cls, args, IGNORE_MISSING_KEYS, out>>

\* module(): one forward evaluation.  `fresh` records that no update or
\* load happened since construction, `n` counts consecutive calls.
Forward ==
    /\ status = "constructed"
    /\ last.op = "forward" => last.n < MaxForwardCalls
    /\ LET r == forward(self)
       IN  /\ out' = r.ret
           /\ self' = r.self
    /\ last' = [op |-> "forward",
                fresh |-> (last.op = "init" \/ (last.op = "forward" /\ last.fresh)),
                n |-> IF last.op = "forward" THEN last.n + 1 ELSE 1]
    /\ UNCHANGED <<cls, args, status, IGNORE_MISSING_KEYS>>

\* an optimizer step writes a new value into the trainable parameter
Update ==
    /\ status = "constructed"
    /\ \E v \in ParamValues : self' = set_param(self, v)
    /\ last' = [op |-> "update"]
    /\ out' = NoValue
    /\ UNCHANGED <<cls, args, status, IGNORE_MISSING_KEYS>>

\* load_state_dict reaches the module's _load_from_state_dict hook
Load ==
    /\ status = "constructed"
    /\ \E prefix \in Prefixes, strict \in BOOLEAN :
         \E ctx \in Contexts(prefix) :
         \E state_dict \in StateDicts(cls, prefix, ctx.others) :
            LET missing_keys == ctx.missing_keys
                r == load_from_state_dict(self, state_dict, prefix, strict, missing_keys, {}, IGNORE_MISSING_KEYS)
            IN  /\ self' = r.self
                /\ last' = [op |-> "load",
                            prefix |-> prefix,
                            strict |-> strict,
                            state_dict_in |-> state_dict,
                            missing_keys_in |-> missing_keys,
                            state_dict |-> r.state_dict,
                            missing_keys |-> r.missing_keys,
                            unexpected_keys |-> r.unexpected_keys]
    /\ out' = NoValue
    /\ UNCHANGED <<cls, args, status, IGNORE_MISSING_KEYS>>

Next ==
    \/ ConstructBitWidthParameter
    \/ ConstructRemoveBitwidthParameter
    \/ Forward
    \/ Update
    \/ Load

Spec == Init /\ [][Next]_vars

TypeOK ==
    /\ status \in {"new", "constructed", "RuntimeError", "ZeroDivisionError"}
    /\ (self = NoModule) <=> (status # "constructed")

----------------------------------------------------------------------------
(* Properties of BitWidthParameter *)

IsBitWidthParameter == cls = "BitWidthParameter"
IsRemoveBitwidthParameter == cls = "RemoveBitwidthParameter"

\* C1: constructing BitWidthParameter raises (and yields no module) exactly
\* when bit_width < 2, min_bit_width < 2 or bit_width < min_bit_width, and
\* yields a module for every bit_width >= min_bit_width >= 2.
C1_ConstructionValidation ==
    (IsBitWidthParameter /\ status # "new") =>
        LET invalid == \/ args.bit_width < 2
                       \/ args.min_bit_width < 2
                       \/ args.bit_width < args.min_bit_width
        IN  /\ invalid => (status = "RuntimeError" /\ self = NoModule)
            /\ ~invalid => (status = "constructed" /\ self # NoModule
                            /\ self.cls = "BitWidthParameter")

C1_Witness ==
    /\ IsBitWidthParameter
    /\ status = "RuntimeError"
    /\ args.bit_width >= 2
    /\ args.min_bit_width >= 2
    /\ args.bit_width < args.min_bit_width

\* C2: forward() called right after construction, with no update or load in
\* between, returns the restricted image of the requested bit_width, which
\* under the default policy IntRestrictValue(RoundSte()) is bit_width itself.
C2_InitialForwardIsBitWidth ==
    (IsBitWidthParameter /\ last.op = "forward" /\ last.fresh) =>
        /\ out = restrict(args.restrict_bit_width_impl,
                          restrict_init_float(args.restrict_bit_width_impl,
                                              Int2Rat(args.bit_width)))
        /\ args.restrict_bit_width_impl = IntRestrictValueRoundSte
              => out = Int2Rat(args.bit_width)

C2_Witness ==
    /\ IsBitWidthParameter
    /\ last.op = "forward"
    /\ last.fresh
    /\ args.restrict_bit_width_impl = IntRestrictValueRoundSte
    /\ args.bit_width = 4
    /\ args.min_bit_width = 3
    /\ out = Int2Rat(4)

----------------------------------------------------------------------------
(* Properties of RemoveBitwidthParameter *)

Zero == Int2Rat(0)
Reciprocal(x) == Rat(x.d, x.n)

\* forward() of the module with its coefficient replaced by c
ForwardAt(m, c) == forward(set_param(m, c)).ret

\* everything C6 says about the value forward() returned
C6_Bounded ==
    /\ IsFinite(out)
    /\ RLess(Zero, out)
    /\ out = Reciprocal(RAdd(self.non_zero_epsilon, RAbs(self.bit_width_coeff)))
    /\ RLeq(out, Reciprocal(self.non_zero_epsilon))
    /\ (out = Reciprocal(self.non_zero_epsilon)) <=> (self.bit_width_coeff = Zero)
    /\ \A c1, c2 \in ParamValues \cup CheckpointValues :
          /\ RLess(RAbs(c1), RAbs(c2)) => RLess(ForwardAt(self, c2), ForwardAt(self, c1))
          /\ RAbs(c1) = RAbs(c2) => ForwardAt(self, c2) = ForwardAt(self, c1)

\* C6 as stated: for every instance construction accepts and every value of
\* bit_width_coeff, forward() is finite, strictly positive, at most
\* 1/non_zero_epsilon with equality exactly at 0, and decreasing in |coeff|.
C6_ForwardBoundedForEveryInstance ==
    (IsRemoveBitwidthParameter /\ last.op = "forward") => C6_Bounded

\* C6: for every instance constructed with non_zero_epsilon > 0 and every
\* value of bit_width_coeff, forward() is finite, strictly positive, at most
\* 1/non_zero_epsilon with equality exactly at 0, and decreasing in |coeff|.
C6_ForwardBoundedForPositiveEpsilon ==
    (IsRemoveBitwidthParameter /\ last.op = "forward"
        /\ RLess(Zero, self.non_zero_epsilon)) => C6_Bounded

C6_Witness ==
    /\ IsRemoveBitwidthParameter
    /\ last.op = "forward"
    /\ self.non_zero_epsilon = NON_ZERO_EPSILON
    /\ self.bit_width_coeff = Zero
    /\ out = Int2Rat(1000000)

\* the initial coefficient C7 names
C7_CoeffInit ==
    IF args.bit_width_to_remove = 0 THEN Reciprocal(args.remove_zero_bit_width)
    ELSE Rat(1, args.bit_width_to_remove)

\* what C7 says of a successfully constructed module
C7_Initialised ==
    /\ status = "constructed"
    /\ last.op = "init" =>
          /\ self.bit_width_coeff = C7_CoeffInit
          /\ (args.bit_width_to_remove = 0
                /\ args.remove_zero_bit_width = REMOVE_ZERO_BIT_WIDTH)
                => self.bit_width_coeff = Int2Rat(10)
          /\ args.bit_width_to_remove = 4 => self.bit_width_coeff = Rat(1, 4)
    /\ (last.op = "forward" /\ last.fresh) =>
          out = Reciprocal(RAdd(args.non_zero_epsilon, C7_CoeffInit))

\* forward() at initialisation is below the target 1/coeff_init
C7_BelowTarget ==
    (last.op = "forward" /\ last.fresh) => RLess(out, Reciprocal(C7_CoeffInit))

\* C7 as stated: construction raises for bit_width_to_remove < 0 and
\* otherwise succeeds without a division by zero, with bit_width_coeff
\* 1/remove_zero_bit_width (for 0) or 1/bit_width_to_remove, and forward()
\* at initialisation 1/(non_zero_epsilon + coeff_init), just below the target.
C7_ConstructionAsStated ==
    (IsRemoveBitwidthParameter /\ status # "new") =>
        /\ args.bit_width_to_remove < 0 => (status = "RuntimeError" /\ self = NoModule)
        /\ args.bit_width_to_remove >= 0 => (C7_Initialised /\ C7_BelowTarget)

\* C7: construction raises RuntimeError for bit_width_to_remove < 0 and
\* ZeroDivisionError for bit_width_to_remove == 0 with remove_zero_bit_width
\* == 0; for bit_width_to_remove > 0, and for bit_width_to_remove == 0 with
\* remove_zero_bit_width > 0, it succeeds with the stated coefficient and
\* initial forward(), which is below the target when non_zero_epsilon > 0.
C7_ConstructionWithPositiveSentinel ==
    (IsRemoveBitwidthParameter /\ status # "new") =>
        /\ args.bit_width_to_remove < 0 => (status = "RuntimeError" /\ self = NoModule)
        /\ (args.bit_width_to_remove = 0 /\ args.remove_zero_bit_width = Zero)
              => (status = "ZeroDivisionError" /\ self = NoModule)
        /\ (\/ args.bit_width_to_remove > 0
            \/ args.bit_width_to_remove = 0 /\ RLess(Zero, args.remove_zero_bit_width))
              => /\ C7_Initialised
                 /\ RLess(Zero, args.non_zero_epsilon) => C7_BelowTarget

C7_Witness ==
    /\ IsRemoveBitwidthParameter
    /\ last.op = "forward"
    /\ last.fresh
    /\ args.bit_width_to_remove = 0
    /\ args.remove_zero_bit_width = REMOVE_ZERO_BIT_WIDTH
    /\ args.non_zero_epsilon = NON_ZERO_EPSILON
    /\ out = Rat(1000000, 10000001)

----------------------------------------------------------------------------
(* Properties of the state-dict load hook *)

\* the module's own key in the load call c
OwnKey(c) == c.prefix \o param_name(cls)

\* C4: a load with override_pretrained set and the module's key present in
\* the state dict deletes the key from the state dict and leaves the
\* trainable parameter at the value it had before the load.
C4_OverrideKeepsParameter ==
    [][(/\ last'.op = "load"
        /\ self.override_pretrained
        /\ OwnKey(last') \in DOMAIN last'.state_dict_in)
       => /\ param(self') = param(self)
          /\ OwnKey(last') \notin DOMAIN last'.state_dict]_vars

C4_Witness ==
    /\ last.op = "load"
    /\ self.override_pretrained
    /\ OwnKey(last) \in DOMAIN last.state_dict_in
    /\ OwnKey(last) \notin DOMAIN last.state_dict
    /\ param(self) # last.state_dict_in[OwnKey(last)]

\* C5: with the ignore-missing-keys flag set, the module's own key is not in
\* missing_keys when the hook returns, whatever the state dict holds and
\* whatever override_pretrained is.
C5_IgnoreMissingKeysSuppresses ==
    (last.op = "load" /\ IGNORE_MISSING_KEYS) =>
        ~contains(last.missing_keys, OwnKey(last))

C5_Witness ==
    /\ last.op = "load"
    /\ IGNORE_MISSING_KEYS
    /\ last.strict
    /\ OwnKey(last) \notin DOMAIN last.state_dict
    /\ last.missing_keys = <<"conv.bias">>

\* C8: forward() leaves the module's attributes unchanged, consecutive
\* forward() calls return the same value, and bit_width_base and
\* override_pretrained never change after construction.
C8_ForwardIsPureRead ==
    [][status = "constructed" =>
          /\ self'.override_pretrained = self.override_pretrained
          /\ IsBitWidthParameter => self'.bit_width_base = self.bit_width_base
          /\ last'.op = "forward" => self' = self
          /\ (last.op = "forward" /\ last'.op = "forward") => out' = out]_vars

C8_Witness ==
    /\ last.op = "forward"
    /\ last.n = 2
    /\ param(self).n < 0
    /\ out # NoValue

\* what the generic loader produces from the state dict the hook hands it
C9_Generic ==
    Module_load_from_state_dict(self, last.state_dict, last.prefix, last.strict,
                                last.missing_keys_in, {})

\* C9: the hook deletes at most its own key from the state dict, and only
\* when override_pretrained is set; it removes at most that key from
\* missing_keys, and only when the ignore-missing-keys flag is set; without
\* override_pretrained a persisted value replaces the parameter; everything
\* else is as the generic loader produced it.
C9_HookTouchesOnlyOwnKey ==
    last.op = "load" =>
        /\ \/ last.state_dict = last.state_dict_in
           \/ /\ self.override_pretrained
              /\ last.state_dict = del_key(last.state_dict_in, OwnKey(last))
        /\ ~self.override_pretrained =>
              /\ last.state_dict = last.state_dict_in
              /\ OwnKey(last) \in DOMAIN last.state_dict_in
                    => param(self) = last.state_dict_in[OwnKey(last)]
        /\ \/ last.missing_keys = C9_Generic.missing_keys
           \/ /\ IGNORE_MISSING_KEYS
              /\ last.missing_keys = remove_first(C9_Generic.missing_keys, OwnKey(last))
        /\ last.unexpected_keys = C9_Generic.unexpected_keys

C9_Witness ==
    /\ last.op = "load"
    /\ ~self.override_pretrained
    /\ IGNORE_MISSING_KEYS
    /\ last.strict
    /\ OwnKey(last) \in DOMAIN last.state_dict
    /\ "conv.weight" \in DOMAIN last.state_dict
    /\ param(self) = last.state_dict_in[OwnKey(last)]
    /\ last.missing_keys = <<"conv.bias">>
    /\ last.unexpected_keys # {}

\* C10: a strict load with override_pretrained set, the module's key present
\* and the ignore-missing-keys flag not set reports the key in missing_keys.
C10_OverriddenKeyReportedMissing ==
    (/\ last.op = "load"
     /\ last.strict
     /\ self.override_pretrained
     /\ ~IGNORE_MISSING_KEYS
     /\ OwnKey(last) \in DOMAIN last.state_dict_in)
    => contains(last.missing_keys, OwnKey(last))

C10_Witness ==
    /\ last.op = "load"
    /\ last.strict
    /\ self.override_pretrained
    /\ ~IGNORE_MISSING_KEYS
    /\ OwnKey(last) \in DOMAIN last.state_dict_in
    /\ last.missing_keys = <<"conv.bias", OwnKey(last)>>

====
